---- MODULE Spec2Model ----
(***************************************************************************)
(* State-machine model of the spaced-repetition core of the Chinese        *)
(* learning application: the SM-2 scheduler (learning/spaced_repetition),  *)
(* the SQLite-backed mastery store and session ledger                      *)
(* (core/progress_tracker), and the gamification layer on top of them:     *)
(* XP and level, the daily streak and the achievements                     *)
(* (learning/gamification).                                                *)
(*                                                                         *)
(* Numbers.  The easiness factor is a Python float; every term of its      *)
(* update is a multiple of 0.01, so it is modelled in hundredths           *)
(* (2.5 -> 250, 1.3 -> 130).  The binary float carries a rounding error of *)
(* a few ulps, which can only change round(interval * EF) when the exact   *)
(* product lies on a .5 tie; RoundProduct therefore yields both            *)
(* neighbours on a tie.  Time is counted in whole days; every operation    *)
(* reads datetime.now() at the current value of the clock `now`.           *)
(***************************************************************************)
EXTENDS Integers, Sequences, FiniteSets, TLC

\* ------------------------------------------------------------------ bounds
MaxReviews == 3        \* valid sm2_algorithm calls in a run of SpecCard
MaxPracticed == 3      \* cap of the practices recorded in the store, all words together
MaxTime == 2           \* last day the clock reaches
MaxSessions == 2       \* session rows that start_session may create
MaxEndCalls == 2       \* cap of user_progress.total_sessions
MaxLimit == 2          \* largest LIMIT passed to get_due_cards

\* ------------------------------------------------------- program constants
NULL == -1             \* Python None / SQL NULL in a numeric column
DefaultEF == 250       \* Card.easiness_factor = 2.5
MinEF == 130           \* floor 1.3 of the easiness factor
EFScale == 100         \* hundredths

Qualities == -1 .. 6   \* review ratings offered to the scheduler; 0..5 valid
\* ratings submitted to the store (SpecCard covers all of Qualities): the two
\* sides 2 and 3 of the recall threshold and the two nearest invalid ones
StoreQualities == {-1, 2, 3, 6}
Words == {"ni_hao", "xie_xie", "zai_jian"}

MaxM(a, b) == b

Max(a, b) == IF a >= b THEN a ELSE b
Min(a, b) == IF a <= b THEN a ELSE b

\* ------------------------------------------------------------------ state
VARIABLES
    card0,          \* the Card object as it was constructed
    card,           \* that Card object now, after the sm2_algorithm calls on it
    history,        \* qualities of the valid reviews applied to `card`
    word_mastery,   \* table word_mastery: simplified -> row, or NoRow
    user_progress,  \* table user_progress: the singleton row, or NoRow
    sessions,       \* table sessions: sequence of rows, id = index
    now,            \* datetime.now(), in days
    lastCall,       \* the operation last called, with its arguments
    ret,            \* what that call returned or raised
    achievements,   \* table achievements: achievement_id -> row, or NoRow
    awarded,        \* sum of the xp_gained that the award_xp calls reported
    streak_log,     \* <<day, current_streak>> of the update_streak calls that wrote
    checked,        \* get_statistics() as the last check_achievements call left it
    procs           \* overlapping process_review calls: thread -> its locals

gameVars == <<achievements, awarded, streak_log, checked, procs>>

vars == <<card0, card, history, word_mastery, user_progress, sessions, now, lastCall, ret,
          gameVars>>

NoRow == [exists |-> FALSE]

\* ACHIEVEMENTS: the catalogue, in the order check_achievements walks it.
ACHIEVEMENTS ==
    << [id |-> "first_word",    category |-> "words",   requirement |-> 1],
       [id |-> "words_10",      category |-> "words",   requirement |-> 10],
       [id |-> "words_50",      category |-> "words",   requirement |-> 50],
       [id |-> "words_100",     category |-> "words",   requirement |-> 100],
       [id |-> "streak_3",      category |-> "streak",  requirement |-> 3],
       [id |-> "streak_7",      category |-> "streak",  requirement |-> 7],
       [id |-> "streak_30",     category |-> "streak",  requirement |-> 30],
       [id |-> "quiz_first",    category |-> "score",   requirement |-> 1],
       [id |-> "quiz_perfect",  category |-> "score",   requirement |-> 100],
       [id |-> "quiz_10",       category |-> "score",   requirement |-> 10],
       [id |-> "time_1h",       category |-> "time",    requirement |-> 60],
       [id |-> "time_10h",      category |-> "time",    requirement |-> 600],
       [id |-> "hsk1_complete", category |-> "special", requirement |-> 150] >>

AchievementIds == { ACHIEVEMENTS[i].id : i \in 1 .. Len(ACHIEVEMENTS) }

\* No gamification service constructed, no award made, no thread running.
NoGame ==
    /\ achievements = [a \in AchievementIds |-> NoRow]
    /\ awarded = 0
    /\ streak_log = <<>>
    /\ checked = NoRow
    /\ procs = <<>>

\* ------------------------------------------------------- SM-2 scheduler
\* Card dataclass with its defaults; __post_init__ sets next_review to now.
NewCard(t) ==
    [easiness_factor |-> DefaultEF, interval |-> 0, repetitions |-> 0,
     next_review |-> t, times_practiced |-> 0, times_correct |-> 0,
     mastery_level |-> "new"]

ValidQualityM(quality) == quality <= 5

\* `if not 0 <= quality <= 5: raise ValueError`
ValidQuality(quality) == 0 <= quality /\ quality <= 5

EFDeltaM(quality) == 10 - (5 - quality) * (9 + (5 - quality) * 2)

\* 0.1 - (5 - q) * (0.08 + (5 - q) * 0.02), in hundredths
EFDelta(quality) == 10 - (5 - quality) * (8 + (5 - quality) * 2)

NewEasinessM(ef, quality) == ef + EFDelta(quality)

\* max(1.3, EF + delta)
NewEasiness(ef, quality) == Max(MinEF, ef + EFDelta(quality))

\* round(interval * easiness_factor): the nearest integer; on an exact .5 tie
\* the float's rounding error decides, so both neighbours are possible.
RoundProduct(interval, ef) ==
    LET n == interval * ef
        lo == n \div EFScale
        r == n % EFScale
    IN  IF 2 * r < EFScale THEN {lo}
        ELSE IF 2 * r > EFScale THEN {lo + 1}
        ELSE {lo, lo + 1}

NewRepetitionsM(c, quality) ==
    IF quality < 2 THEN 0 ELSE c.repetitions + 1

\* repetitions: reset on a lapse, else incremented
NewRepetitions(c, quality) ==
    IF quality < 3 THEN 0 ELSE c.repetitions + 1

NewIntervalsM(c, quality) ==
    IF quality < 3 THEN {1}
    ELSE IF c.repetitions = 0 THEN {1}
    ELSE IF c.repetitions = 1 THEN {6}
    ELSE RoundProduct(c.interval, NewEasiness(c.easiness_factor, quality))

NewIntervalsFirstKept(c, quality) ==
    IF quality < 3 THEN {1}
    ELSE IF c.repetitions = 0 THEN {c.interval}
    ELSE IF c.repetitions = 1 THEN {6}
    ELSE RoundProduct(c.interval, c.easiness_factor)

NewIntervalsLaterKept(c, quality) ==
    IF quality < 3 THEN {1}
    ELSE IF c.repetitions = 0 THEN {1}
    ELSE IF c.repetitions = 1 THEN {6}
    ELSE {c.interval}

\* interval: 1 on a lapse; 1, 6, round(interval * EF) on a success, with the
\* easiness factor and repetitions the card holds before this review
NewIntervals(c, quality) ==
    IF quality < 3 THEN {1}
    ELSE IF c.repetitions = 0 THEN {1}
    ELSE IF c.repetitions = 1 THEN {6}
    ELSE RoundProduct(c.interval, c.easiness_factor)

calculate_mastery_levelM(c) ==
    IF c.times_practiced = 0 THEN "new"
    ELSE IF c.repetitions >= 5 /\ 10 * c.times_correct >= 9 * c.times_practiced
            /\ c.interval >= 21 THEN "mastered"
    ELSE IF c.repetitions >= 3 /\ 4 * c.times_correct >= 3 * c.times_practiced
         THEN "proficient"
    ELSE IF c.times_correct >= 1 THEN "learning"
    ELSE "new"

\* _calculate_mastery_level; accuracy = times_correct / times_practiced,
\* compared exactly (0.9 -> 9/10, 0.75 -> 3/4)
calculate_mastery_level(c) ==
    IF c.times_practiced = 0 THEN "new"
    ELSE IF c.repetitions >= 5 /\ 10 * c.times_correct >= 9 * c.times_practiced
            /\ c.interval >= 21 THEN "mastered"
    ELSE IF c.repetitions >= 3 /\ 4 * c.times_correct >= 3 * c.times_practiced
         THEN "proficient"
    ELSE IF c.repetitions >= 1 THEN "learning"
    ELSE "new"

\* The body of sm2_algorithm after validation: the set of cards it can return
\* for card c, rating quality, at time t.
sm2_update(c, quality, t) ==
    { LET counted == [c EXCEPT !.times_practiced = @ + 1,
                               !.times_correct = IF quality >= 3 THEN @ + 1 ELSE @]
          moved == [counted EXCEPT !.interval = i,
                                   !.repetitions = NewRepetitions(c, quality),
                                   !.easiness_factor = NewEasiness(c.easiness_factor, quality),
                                   !.next_review = t + i]
      IN  [moved EXCEPT !.mastery_level = calculate_mastery_level(moved)]
      : i \in NewIntervals(c, quality) }

\* sm2_algorithm(card, quality): ValueError before any mutation, else the
\* updated card.  Yields the set of outcomes [error, card].
sm2_algorithm(c, quality, t) ==
    IF ~ValidQuality(quality)
    THEN {[error |-> "ValueError", card |-> c]}
    ELSE {[error |-> "", card |-> u] : u \in sm2_update(c, quality, t)}

\* ------------------------------------------------------- mastery store
NoLevel == "None"      \* mastery_level=None, the keyword default

\* A word_mastery row as INSERT creates it: the column defaults.
DefaultRow ==
    [exists |-> TRUE, times_practiced |-> 0, times_correct |-> 0,
     last_practiced |-> NULL, mastery_level |-> "new", next_review |-> NULL,
     easiness_factor |-> DefaultEF, interval |-> 0, repetitions |-> 0]

\* The user_progress row as INSERT OR IGNORE ... (id) VALUES (1) creates it.
DefaultProgress ==
    [exists |-> TRUE, level |-> 1, xp |-> 0, total_xp |-> 0,
     total_words_learned |-> 0, current_streak |-> 0, longest_streak |-> 0,
     last_study_date |-> NULL, best_quiz_score |-> 0, total_sessions |-> 0]

\* COALESCE(?, column)
COALESCE(x, old) == IF x = NULL THEN old ELSE x

get_word_dataM(wm, word) == IF wm[word].exists THEN wm[word] ELSE DefaultRow

\* get_word_data: the row of the word, or None (NoRow)
get_word_data(wm, word) == wm[word]

StoredCountersM(row, is_correct) ==
    IF row.exists
    THEN <<row.times_practiced + 2, row.times_correct + (IF is_correct THEN 1 ELSE 0)>>
    ELSE <<1, IF is_correct THEN 1 ELSE 0>>

StoredCountersSwapped(row, is_correct) ==
    IF row.exists
    THEN <<row.times_practiced + (IF is_correct THEN 1 ELSE 0), row.times_correct + 1>>
    ELSE <<1, IF is_correct THEN 1 ELSE 0>>

\* update_word_mastery: tp, tc from the stored counters
StoredCounters(row, is_correct) ==
    IF row.exists
    THEN <<row.times_practiced + 1, row.times_correct + (IF is_correct THEN 1 ELSE 0)>>
    ELSE <<1, IF is_correct THEN 1 ELSE 0>>

\* update_word_mastery, `if mastery_level is None`: the level and the days to
\* the next review from the counters alone (0.9 -> 9/10, 0.7 -> 7/10)
LessonLevel(tp, tc) ==
    IF tp >= 10 /\ 10 * tc >= 9 * tp THEN [mastery_level |-> "mastered", days |-> 30]
    ELSE IF tp >= 5 /\ 10 * tc >= 7 * tp THEN [mastery_level |-> "proficient", days |-> 7]
    ELSE IF tp >= 3 THEN [mastery_level |-> "learning", days |-> 1]
    ELSE [mastery_level |-> "new", days |-> 0]

\* The keyword arguments of update_word_mastery left at their default None.
NoKeywords ==
    [easiness_factor |-> NULL, interval |-> NULL, repetitions |-> NULL,
     next_review |-> NULL, mastery_level |-> NoLevel]

\* update_word_mastery(word_data, is_correct, **kw) at time t, kw holding
\* easiness_factor, interval, repetitions, next_review and mastery_level:
\* the tables afterwards.
update_word_mastery(wm, up, t, word, is_correct, kw) ==
    LET old == wm[word]
        cnt == StoredCounters(old, is_correct)
        inserted == IF old.exists THEN old ELSE DefaultRow
        up2 == IF ~old.exists /\ up.exists
               THEN [up EXCEPT !.total_words_learned = @ + 1]
               ELSE up
        lesson == LessonLevel(cnt[1], cnt[2])
        level == IF kw.mastery_level = NoLevel
                 THEN lesson.mastery_level
                 ELSE kw.mastery_level
        review == IF kw.mastery_level = NoLevel /\ kw.next_review = NULL
                  THEN t + lesson.days
                  ELSE kw.next_review
        row == [inserted EXCEPT
                  !.times_practiced = cnt[1],
                  !.times_correct = cnt[2],
                  !.last_practiced = t,
                  !.mastery_level = level,
                  !.next_review = review,
                  !.easiness_factor = COALESCE(kw.easiness_factor, @),
                  !.interval = COALESCE(kw.interval, @),
                  !.repetitions = COALESCE(kw.repetitions, @)]
    IN  [word_mastery |-> [wm EXCEPT ![word] = row], user_progress |-> up2]

\* process_review builds Card(...) from the loaded row; mastery_level and
\* next_review are not passed, so they take the dataclass defaults.
CardFromRow(row, t) ==
    [NewCard(t) EXCEPT !.easiness_factor = row.easiness_factor,
                       !.interval = row.interval,
                       !.repetitions = row.repetitions,
                       !.times_practiced = row.times_practiced,
                       !.times_correct = row.times_correct]

\* process_review(word, quality) at time t: the set of outcomes, each the
\* returned dict (or the error raised, with the local Card as the failed
\* sm2_algorithm call left it) and the tables afterwards.
process_review(wm, up, t, word, quality) ==
    LET row == get_word_data(wm, word)
        loaded == CardFromRow(row, t)
    IN  IF ~row.exists
        THEN {[ret |-> [error |-> "not found"],
               word_mastery |-> wm, user_progress |-> up]}
        ELSE { IF out.error # ""
               THEN [ret |-> [error |-> out.error, card |-> out.card],
                     word_mastery |-> wm, user_progress |-> up]
               ELSE LET kw == [easiness_factor |-> out.card.easiness_factor,
                               interval |-> out.card.interval,
                               repetitions |-> out.card.repetitions,
                               next_review |-> out.card.next_review,
                               mastery_level |-> out.card.mastery_level]
                        db == update_word_mastery(wm, up, t, word, quality >= 3, kw)
                    IN  [ret |-> [error |-> "", new_interval |-> out.card.interval,
                                  next_review |-> out.card.next_review,
                                  mastery_level |-> out.card.mastery_level,
                                  easiness_factor |-> out.card.easiness_factor],
                         word_mastery |-> db.word_mastery,
                         user_progress |-> db.user_progress]
               : out \in sm2_algorithm(loaded, quality, t) }

IsDueM(row, t) == row.next_review < t \/ row.next_review = NULL

\* WHERE next_review <= ? OR next_review IS NULL
IsDue(row, t) == row.next_review <= t \/ row.next_review = NULL

NotAfterM(a, b) == b = NULL \/ (a # NULL /\ b <= a)

\* ORDER BY next_review ASC: SQLite sorts NULL before every value
NotAfter(a, b) == a = NULL \/ (b # NULL /\ a <= b)

\* Every order the rows of S can come out of ORDER BY next_review ASC in;
\* rows with equal next_review come in either order.
RECURSIVE OrderByNextReview(_, _)
OrderByNextReview(wm, S) ==
    IF S = {} THEN {<<>>}
    ELSE UNION { { <<w>> \o rest : rest \in OrderByNextReview(wm, S \ {w}) }
                 : w \in { x \in S : \A y \in S :
                              NotAfter(wm[x].next_review, wm[y].next_review) } }

\* LIMIT ?: a negative limit means no limit in SQLite
Limit(rows, n) == IF n < 0 THEN rows ELSE SubSeq(rows, 1, Min(n, Len(rows)))

\* get_words_for_review(limit) at time t: the possible result lists
get_words_for_review(wm, t, limit) ==
    { Limit(rows, limit)
      : rows \in OrderByNextReview(wm, {w \in Words : wm[w].exists /\ IsDue(wm[w], t)}) }

\* get_due_cards(limit): each row as a dict
get_due_cards(wm, t, limit) ==
    { [k \in 1 .. Len(rows) |->
          [simplified |-> rows[k], mastery_level |-> wm[rows[k]].mastery_level]]
      : rows \in get_words_for_review(wm, t, limit) }

\* ------------------------------------------------------- session ledger
\* start_session(lesson_number, session_type): INSERT; AUTOINCREMENT makes the
\* new id the number of rows ever inserted, and no row is ever deleted.
start_session(ss, t, lesson_number, session_type) ==
    Append(ss, [start_time |-> t, end_time |-> NULL, lesson_number |-> lesson_number,
                words_learned |-> 0, quiz_score |-> NULL,
                session_type |-> session_type])

\* end_session(session_id, words_learned, quiz_score) at time t: UPDATE
\* sessions ... WHERE id=?, then the user_progress counters; the tables afterwards.
end_session(ss, up, t, session_id, words_learned, quiz_score) ==
    LET ss2 == IF session_id \in 1 .. Len(ss)
               THEN [ss EXCEPT ![session_id] =
                        [@ EXCEPT !.end_time = t,
                                  !.words_learned = words_learned,
                                  !.quiz_score = quiz_score]]
               ELSE ss
        counted == IF up.exists THEN [up EXCEPT !.total_sessions = @ + 1] ELSE up
        up2 == IF up.exists /\ quiz_score # NULL
               THEN [counted EXCEPT !.best_quiz_score = Max(@, quiz_score)]
               ELSE counted
    IN  [sessions |-> ss2, user_progress |-> up2]

\* ------------------------------------------------------------ SpecCard
\* Cards a caller may construct (tests build them with keyword arguments).
InitEFs == {130, 250}
InitIntervals == {0, 1, 6, 30}
InitRepetitions == {0, 1, 2, 5}
InitCounters == {<<0, 0>>, <<1, 0>>, <<1, 1>>}

InitCards ==
    { [NewCard(0) EXCEPT !.easiness_factor = ef, !.interval = i, !.repetitions = r,
                         !.times_practiced = pc[1], !.times_correct = pc[2]]
      : ef \in InitEFs, i \in InitIntervals, r \in InitRepetitions, pc \in InitCounters }

\* The tables as setup_database creates them: all empty.
EmptyStore ==
    /\ word_mastery = [w \in Words |-> NoRow]
    /\ user_progress = NoRow
    /\ sessions = <<>>
    /\ now = 0

InitCard ==
    /\ card0 \in InitCards
    /\ card = card0
    /\ history = <<>>
    /\ EmptyStore
    /\ lastCall = [op |-> "init"]
    /\ ret = [error |-> ""]
    /\ NoGame

\* One direct call sm2_algorithm(card, quality) on the in-memory card.
Sm2Review(quality) ==
    /\ ValidQuality(quality) => Len(history) < MaxReviews
    /\ \E out \in sm2_algorithm(card, quality, now) :
        /\ card' = out.card
        /\ ret' = [error |-> out.error]
        /\ history' = IF out.error = "" THEN Append(history, quality) ELSE history
    /\ lastCall' = [op |-> "sm2_algorithm", quality |-> quality, before |-> card]
    /\ UNCHANGED <<gameVars, card0, word_mastery, user_progress, sessions, now>>

NextCard == \E quality \in Qualities : Sm2Review(quality)

SpecCard == InitCard /\ [][NextCard]_vars

\* ---------------------------------------------------- claims on SpecCard
IsReview(qs) == lastCall.op = "sm2_algorithm" /\ lastCall.quality \in qs

\* C2: in every state reached from a default card (and from any constructed
\* card whose easiness factor is at least 1.3) by reviews with qualities 0..5,
\* the easiness factor is at least 1.3.
C2_EasinessFloor == card.easiness_factor >= MinEF

\* two quality-0 reviews of a default card: 2.5 - 0.8 - 0.8 is cut off at 1.3
C2_Witness ==
    /\ card0 = NewCard(0)
    /\ history = <<0, 0>>
    /\ card.easiness_factor = MinEF

\* C3: whatever the card held before, a review with quality 0, 1 or 2 leaves
\* repetitions = 0 and interval = 1.
C3_LapseResets ==
    IsReview(0 .. 2) => card.repetitions = 0 /\ card.interval = 1

\* the unit test's card: repetitions 5, interval 30, reviewed with quality 2
C3_Witness ==
    /\ IsReview({2})
    /\ lastCall.before.repetitions = 5
    /\ lastCall.before.interval = 30
    /\ card.repetitions = 0
    /\ card.interval = 1

\* C4: a review with quality >= 3 sets the interval to 1 when the prior
\* repetitions is 0, to 6 when it is 1, and otherwise to the integer nearest to
\* prior interval x prior easiness factor; repetitions grows by exactly 1.
\* Three quality-5 reviews of a new card give intervals 1, 6, 16 = round(6 x 2.7)
\* and repetitions 3.
C4_SuccessInterval ==
    /\ IsReview(3 .. 5) =>
          LET b == lastCall.before
              prod == b.interval * b.easiness_factor
              d == EFScale * card.interval - prod
          IN  /\ card.repetitions = b.repetitions + 1
              /\ b.repetitions = 0 => card.interval = 1
              /\ b.repetitions = 1 => card.interval = 6
              /\ b.repetitions >= 2 => 2 * d <= EFScale /\ -2 * d <= EFScale
    /\ card0 = NewCard(0) =>
          /\ history = <<5>> => card.interval = 1 /\ card.repetitions = 1
          /\ history = <<5, 5>> =>
                /\ card.interval = 6
                /\ card.repetitions = 2
                /\ card.easiness_factor = 270
          /\ history = <<5, 5, 5>> => card.interval = 16 /\ card.repetitions = 3

C4_Witness ==
    /\ card0 = NewCard(0)
    /\ history = <<5, 5, 5>>
    /\ card.interval = 16

\* ------------------------------------------------------------ SpecStore
\* The store as the application's services leave it once constructed:
\* ProgressTracker() creates the empty tables, GamificationSystem(tracker)
\* inserts the user_progress row.
InitStore ==
    /\ card0 = NewCard(0)
    /\ card = card0
    /\ history = <<>>
    /\ word_mastery = [w \in Words |-> NoRow]
    /\ user_progress = DefaultProgress
    /\ sessions = <<>>
    /\ now = 0
    /\ lastCall = [op |-> "init"]
    /\ ret = [error |-> ""]
    /\ NoGame

\* The clock moves on by a day.
Tick ==
    /\ now < MaxTime
    /\ now' = now + 1
    /\ lastCall' = [op |-> "tick"]
    /\ ret' = [error |-> ""]
    /\ UNCHANGED <<gameVars, card0, card, history, word_mastery, user_progress, sessions>>

\* init_user_progress(): INSERT OR IGNORE INTO user_progress (id) VALUES (1)
InitUserProgress ==
    /\ user_progress' = IF user_progress.exists THEN user_progress ELSE DefaultProgress
    /\ lastCall' = [op |-> "init_user_progress"]
    /\ ret' = [error |-> ""]
    /\ UNCHANGED <<gameVars, card0, card, history, word_mastery, sessions, now>>

\* times_practiced summed over the rows of the table
RECURSIVE SumPracticed(_, _)
SumPracticed(wm, S) ==
    IF S = {} THEN 0
    ELSE LET w == CHOOSE x \in S : TRUE
         IN  (IF wm[w].exists THEN wm[w].times_practiced ELSE 0)
             + SumPracticed(wm, S \ {w})

CanPractise == SumPracticed(word_mastery, Words) < MaxPracticed

\* The lesson flow: update_word_mastery(word, is_correct), no keyword given.
LessonUpdate(word, is_correct) ==
    /\ CanPractise
    /\ LET db == update_word_mastery(word_mastery, user_progress, now, word,
                                     is_correct, NoKeywords)
       IN  /\ word_mastery' = db.word_mastery
           /\ user_progress' = db.user_progress
    /\ lastCall' = [op |-> "update_word_mastery", word |-> word,
                    is_correct |-> is_correct]
    /\ ret' = [error |-> ""]
    /\ UNCHANGED <<gameVars, card0, card, history, sessions, now>>

\* SpacedRepetitionSystem.process_review(word, quality)
ProcessReview(word, quality) ==
    /\ (word_mastery[word].exists /\ ValidQuality(quality)) => CanPractise
    /\ \E out \in process_review(word_mastery, user_progress, now, word, quality) :
        /\ word_mastery' = out.word_mastery
        /\ user_progress' = out.user_progress
        /\ ret' = out.ret
    /\ lastCall' = [op |-> "process_review", word |-> word, quality |-> quality]
    /\ UNCHANGED <<gameVars, card0, card, history, sessions, now>>

\* SpacedRepetitionSystem.get_due_cards(limit)
GetDueCards(limit) ==
    /\ \E cards \in get_due_cards(word_mastery, now, limit) :
          ret' = [error |-> "", cards |-> cards]
    /\ lastCall' = [op |-> "get_due_cards", limit |-> limit]
    /\ UNCHANGED <<gameVars, card0, card, history, word_mastery, user_progress, sessions, now>>

NextStore ==
    \/ Tick
    \/ \E word \in Words, is_correct \in BOOLEAN : LessonUpdate(word, is_correct)
    \/ \E word \in Words, quality \in StoreQualities : ProcessReview(word, quality)
    \/ \E limit \in 0 .. MaxLimit : GetDueCards(limit)

SpecStore == InitStore /\ [][NextStore]_vars

\* --------------------------------------------------- claims on SpecStore
IsCall(op) == lastCall.op = op

\* C1: a review whose quality is outside 0..5 is rejected with an error before
\* any mutation: the Card that sm2_algorithm was handed keeps every field it
\* was built with, and no persisted row changes; this holds for every such
\* call, so also for a repeated one.
C1_InvalidQualityRejected ==
    [][ (lastCall'.op = "process_review" /\ lastCall'.quality \notin 0 .. 5) =>
          LET row == word_mastery[lastCall'.word]
          IN  /\ ret'.error \in {"ValueError", "not found"}
              /\ row.exists =>
                    /\ ret'.error = "ValueError"
                    /\ ret'.card = CardFromRow(row, now)
              /\ word_mastery' = word_mastery
              /\ user_progress' = user_progress
              /\ sessions' = sessions ]_vars

C1_Witness ==
    /\ IsCall("process_review")
    /\ lastCall.quality = 6
    /\ ret.error = "ValueError"
    /\ ret.card.times_practiced = 2
    /\ word_mastery[lastCall.word].times_practiced = 2

\* C5: every successful process_review(word, q) raises the word's stored
\* times_practiced by exactly 1 and its times_correct by 1 when q >= 3 and by 0
\* otherwise; no operation removes a row or lowers either counter.
C5_CountersStep ==
    [][ /\ \A w \in Words : word_mastery[w].exists =>
              /\ word_mastery'[w].exists
              /\ word_mastery'[w].times_practiced >= word_mastery[w].times_practiced
              /\ word_mastery'[w].times_correct >= word_mastery[w].times_correct
        /\ (lastCall'.op = "process_review" /\ ret'.error = "") =>
              LET w == lastCall'.word
              IN  /\ word_mastery'[w].times_practiced
                        = word_mastery[w].times_practiced + 1
                  /\ word_mastery'[w].times_correct
                        = word_mastery[w].times_correct
                          + (IF lastCall'.quality >= 3 THEN 1 ELSE 0) ]_vars

C5_Witness ==
    /\ IsCall("process_review")
    /\ ret.error = ""
    /\ lastCall.quality = 2
    /\ word_mastery[lastCall.word].times_practiced = 3
    /\ word_mastery[lastCall.word].times_correct = 2

\* C6: process_review for a word without a row reports "not found", creates no
\* row and changes nothing that is persisted.
C6_UnknownWord ==
    [][ (lastCall'.op = "process_review" /\ ~word_mastery[lastCall'.word].exists) =>
          /\ ret'.error = "not found"
          /\ ~word_mastery'[lastCall'.word].exists
          /\ word_mastery' = word_mastery
          /\ user_progress' = user_progress
          /\ sessions' = sessions ]_vars

C6_Witness ==
    /\ IsCall("process_review")
    /\ lastCall.quality = 3
    /\ ret.error = "not found"
    /\ ~word_mastery[lastCall.word].exists
    /\ \E w \in Words : word_mastery[w].exists

\* C7: in every reachable state each stored mastery_level equals the tier
\* derivation (mastered, proficient, learning, new) applied to the stored
\* times_practiced, times_correct, repetitions and interval of that word.
C7_LevelIsDerived ==
    \A w \in Words : word_mastery[w].exists =>
        word_mastery[w].mastery_level = calculate_mastery_level(word_mastery[w])

\* next_review a sorts strictly before next_review b, NULL first
StrictlyEarlier(a, b) == (a = NULL /\ b # NULL) \/ (a # NULL /\ b # NULL /\ a < b)

DueWords == {w \in Words : word_mastery[w].exists
                /\ (word_mastery[w].next_review = NULL
                    \/ word_mastery[w].next_review <= now)}

Returned == {ret.cards[k].simplified : k \in 1 .. Len(ret.cards)}

\* C8: get_due_cards(limit) returns min(limit, number of due cards) distinct
\* cards, each due, in ascending next_review order (NULL first), and no due
\* card left out is earlier in that order than a returned one; each comes with
\* its stored mastery_level.
C8_DueQueue ==
    IsCall("get_due_cards") =>
        LET n == Len(ret.cards)
            at(k) == word_mastery[ret.cards[k].simplified].next_review
        IN  /\ n = Min(lastCall.limit, Cardinality(DueWords))
            /\ n <= lastCall.limit
            /\ Cardinality(Returned) = n
            /\ Returned \subseteq DueWords
            /\ \A j, k \in 1 .. n : j < k => ~StrictlyEarlier(at(k), at(j))
            /\ \A w \in DueWords \ Returned : \A k \in 1 .. n :
                  ~StrictlyEarlier(word_mastery[w].next_review, at(k))
            /\ \A k \in 1 .. n : ret.cards[k].mastery_level
                  = word_mastery[ret.cards[k].simplified].mastery_level

\* three due cards with three different dates, the two oldest returned in order
C8_Witness ==
    /\ IsCall("get_due_cards")
    /\ lastCall.limit = 2
    /\ Len(ret.cards) = 2
    /\ StrictlyEarlier(word_mastery[ret.cards[1].simplified].next_review,
                       word_mastery[ret.cards[2].simplified].next_review)
    /\ \E w \in DueWords \ Returned :
          StrictlyEarlier(word_mastery[ret.cards[2].simplified].next_review,
                          word_mastery[w].next_review)

\* ---------------------------------------------------------- SpecSession
LessonNumbers == {0}
SessionTypes == {"lesson", "quiz"}
WordsLearnedArgs == {5}
QuizScoreArgs == {NULL, 50, 100}

\* A fresh database: ProgressTracker() alone creates no user_progress row.
InitSession ==
    /\ card0 = NewCard(0)
    /\ card = card0
    /\ history = <<>>
    /\ EmptyStore
    /\ lastCall = [op |-> "init"]
    /\ ret = [error |-> ""]
    /\ NoGame

StartSession(lesson_number, session_type) ==
    /\ Len(sessions) < MaxSessions
    /\ sessions' = start_session(sessions, now, lesson_number, session_type)
    /\ lastCall' = [op |-> "start_session"]
    /\ ret' = [error |-> "", session_id |-> Len(sessions) + 1]
    /\ UNCHANGED <<gameVars, card0, card, history, word_mastery, user_progress, now>>

EndSession(session_id, words_learned, quiz_score) ==
    /\ user_progress.exists => user_progress.total_sessions < MaxEndCalls
    /\ LET db == end_session(sessions, user_progress, now, session_id,
                             words_learned, quiz_score)
       IN  /\ sessions' = db.sessions
           /\ user_progress' = db.user_progress
    /\ lastCall' = [op |-> "end_session", session_id |-> session_id,
                    words_learned |-> words_learned, quiz_score |-> quiz_score]
    /\ ret' = [error |-> ""]
    /\ UNCHANGED <<gameVars, card0, card, history, word_mastery, now>>

NextSession ==
    \/ Tick
    \/ InitUserProgress
    \/ \E n \in LessonNumbers, k \in SessionTypes : StartSession(n, k)
    \/ \E id \in 1 .. MaxSessions + 1, wl \in WordsLearnedArgs, qs \in QuizScoreArgs :
          EndSession(id, wl, qs)

SpecSession == InitSession /\ [][NextSession]_vars

\* ------------------------------------------------- claims on SpecSession
IsClosed(ss, id) == id \in 1 .. Len(ss) /\ ss[id].end_time # NULL

\* C9: end_session on a session id that does not exist or is already closed
\* is rejected with an invalid-session error and changes no session row and no
\* field of the user progress.
C9_InvalidSessionRejected ==
    [][ (lastCall'.op = "end_session"
           /\ (lastCall'.session_id \notin 1 .. Len(sessions)
                 \/ IsClosed(sessions, lastCall'.session_id))) =>
          /\ ret'.error = "InvalidSessionError"
          /\ sessions' = sessions
          /\ user_progress' = user_progress ]_vars

\* C10: once end_session has set a session's end_time, no later operation
\* changes that session's end_time, words_learned or quiz_score.
C10_ClosedOnce ==
    [][ \A id \in 1 .. Len(sessions) : IsClosed(sessions, id) =>
          /\ sessions'[id].end_time = sessions[id].end_time
          /\ sessions'[id].words_learned = sessions[id].words_learned
          /\ sessions'[id].quiz_score = sessions[id].quiz_score ]_vars

\* ------------------------------------------------- gamification: XP, level
\* learning/gamification.  extra_multiplier is a Python float; it is modelled
\* in halves (0.5 -> 1, 1.0 -> 2), which are exact in binary, so that
\* int(reward * extra_multiplier) is the truncated exact product.
MultiplierScale == 2

XP_REWARDS ==
    [e \in {"word_learned", "word_mastered", "quiz_correct", "quiz_perfect",
            "conversation_turn", "pronunciation_good", "daily_goal_met",
            "streak_bonus_7", "streak_bonus_30"} |->
        CASE e = "word_learned" -> 10
          [] e = "word_mastered" -> 50
          [] e = "quiz_correct" -> 5
          [] e = "quiz_perfect" -> 30
          [] e = "conversation_turn" -> 8
          [] e = "pronunciation_good" -> 15
          [] e = "daily_goal_met" -> 20
          [] e = "streak_bonus_7" -> 50
          [] e = "streak_bonus_30" -> 200]

RewardM(event) == IF event \in DOMAIN XP_REWARDS THEN XP_REWARDS[event] ELSE 10

\* XP_REWARDS.get(event, 0)
Reward(event) == IF event \in DOMAIN XP_REWARDS THEN XP_REWARDS[event] ELSE 0

\* int(n / d): Python's int() drops the fraction, towards zero
IntTrunc(n, d) == IF n >= 0 THEN n \div d ELSE -((-n) \div d)

\* xp_amount = int(XP_REWARDS.get(event, 0) * extra_multiplier)
XpAmount(event, extra_multiplier) ==
    IntTrunc(Reward(event) * extra_multiplier, MultiplierScale)

\* int(100 * (1.5 ** (level - 1))): 1.5 ** k = 3^k / 2^k is exact in a double
XpForLevel(level) == (100 * 3 ^ (level - 1)) \div (2 ^ (level - 1))

\* the test that ends the loop of calculate_level
LevelNotReachedM(xp_accumulated, xp_for_this_level, total_xp) ==
    xp_accumulated + xp_for_this_level >= total_xp

LevelNotReached(xp_accumulated, xp_for_this_level, total_xp) ==
    xp_accumulated + xp_for_this_level > total_xp

RECURSIVE LevelLoop(_, _, _)
LevelLoop(level, xp_accumulated, total_xp) ==
    IF LevelNotReached(xp_accumulated, XpForLevel(level), total_xp)
    THEN level
    ELSE LevelLoop(level + 1, xp_accumulated + XpForLevel(level), total_xp)

calculate_level(total_xp) ==
    IF total_xp <= 0 THEN 1 ELSE LevelLoop(1, 0, total_xp)

\* old_progress.get("total_xp", 0) on the dict of get_user_progress()
TotalXpOf(up) == IF up.exists THEN up.total_xp ELSE 0

\* ProgressTracker.add_xp(amount): UPDATE .. WHERE id=1, then SELECT total_xp
add_xp(up, amount) ==
    LET up2 == IF up.exists
               THEN [up EXCEPT !.xp = @ + amount, !.total_xp = @ + amount]
               ELSE up
    IN  [user_progress |-> up2, ret |-> TotalXpOf(up2)]

\* GamificationSystem.award_xp(event, extra_multiplier)
award_xp(up, event, extra_multiplier) ==
    LET xp_amount == XpAmount(event, extra_multiplier)
    IN  IF xp_amount <= 0
        THEN [user_progress |-> up,
              ret |-> [xp_gained |-> 0, total_xp |-> 0, level |-> 1,
                       leveled_up |-> FALSE]]
        ELSE LET old_level == calculate_level(TotalXpOf(up))
                 added == add_xp(up, xp_amount)
                 new_level == calculate_level(added.ret)
             IN  [user_progress |-> added.user_progress,
                  ret |-> [xp_gained |-> xp_amount, total_xp |-> added.ret,
                           level |-> new_level,
                           leveled_up |-> new_level > old_level]]

\* ------------------------------------------------------------------ streak
\* Dates are day numbers: date.today() is `now`, and last_study_date holds
\* the day whose isoformat() the UPDATE stored (fromisoformat reads it back).
StudiedTodayM(last, today) == FALSE

StudiedToday(last, today) == last = today

StudiedYesterdayM(last, today) == last < today

StudiedYesterday(last, today) == last = today - 1

\* ProgressTracker.update_streak(), reached through GamificationSystem.update_streak()
update_streak(up, today) ==
    IF ~up.exists
    THEN [user_progress |-> up, ret |-> [empty |-> TRUE]]
    ELSE LET last == up.last_study_date
         IN  IF last # NULL /\ StudiedToday(last, today)
             THEN [user_progress |-> up,
                   ret |-> [empty |-> FALSE, already_done |-> TRUE,
                            current_streak |-> up.current_streak]]
             ELSE LET current_streak ==
                          IF last # NULL /\ StudiedYesterday(last, today)
                          THEN up.current_streak + 1
                          ELSE 1
                      longest_streak == Max(up.longest_streak, current_streak)
                  IN  [user_progress |->
                           [up EXCEPT !.current_streak = current_streak,
                                      !.longest_streak = longest_streak,
                                      !.last_study_date = today],
                       ret |-> [empty |-> FALSE, already_done |-> FALSE,
                                current_streak |-> current_streak,
                                longest_streak |-> longest_streak]]

\* ------------------------------------------------------------ achievements
\* a row as INSERT OR IGNORE creates it: unlocked DEFAULT 0, unlocked_at NULL
LockedRow == [exists |-> TRUE, unlocked |-> FALSE, unlocked_at |-> NULL]

init_achievementsM(ach) == [a \in AchievementIds |-> LockedRow]

\* init_achievements(ACHIEVEMENTS): INSERT OR IGNORE, one row per catalogue entry
init_achievements(ach) ==
    [a \in AchievementIds |-> IF ach[a].exists THEN ach[a] ELSE LockedRow]

is_achievement_unlockedM(ach, achievement_id) == FALSE

is_achievement_unlocked(ach, achievement_id) ==
    ach[achievement_id].exists /\ ach[achievement_id].unlocked

\* UPDATE achievements SET unlocked=1, unlocked_at=now WHERE achievement_id=?
unlock_achievement(ach, achievement_id, t) ==
    IF ach[achievement_id].exists
    THEN [ach EXCEPT ![achievement_id] = [@ EXCEPT !.unlocked = TRUE, !.unlocked_at = t]]
    ELSE ach

MinutesPerDay == 1440

\* SUM((julianday(end_time) - julianday(start_time)) * 24 * 60) over the closed sessions
RECURSIVE TotalMinutes(_, _)
TotalMinutes(ss, n) ==
    IF n = 0 THEN 0
    ELSE TotalMinutes(ss, n - 1)
         + (IF ss[n].end_time # NULL
            THEN (ss[n].end_time - ss[n].start_time) * MinutesPerDay
            ELSE 0)

\* MAX(quiz_score) over the sessions that have one, `or 0`
RECURSIVE BestQuizScore(_, _)
BestQuizScore(ss, n) ==
    IF n = 0 THEN 0
    ELSE Max(BestQuizScore(ss, n - 1),
             IF ss[n].quiz_score # NULL THEN ss[n].quiz_score ELSE 0)

\* ProgressTracker.get_statistics(): the aggregates check_achievements reads
get_statistics(wm, ss, up) ==
    [total_study_minutes |-> TotalMinutes(ss, Len(ss)),
     mastered_words |->
         Cardinality({w \in Words : wm[w].exists /\ wm[w].mastery_level = "mastered"}),
     total_words_learned |-> Cardinality({w \in Words : wm[w].exists}),
     best_quiz_score |-> BestQuizScore(ss, Len(ss)),
     total_sessions |-> Len(ss),
     current_streak |-> IF up.exists THEN up.current_streak ELSE 0,
     longest_streak |-> IF up.exists THEN up.longest_streak ELSE 0,
     level |-> IF up.exists THEN up.level ELSE 1,
     total_xp |-> TotalXpOf(up)]

\* the condition check_achievements tests for one catalogue entry
RequirementMet(a, stats, progress) ==
    CASE a.category = "words" -> stats.total_words_learned >= a.requirement
      [] a.category = "streak" ->
            (IF progress.exists THEN progress.current_streak ELSE 0) >= a.requirement
      [] a.category = "score" ->
            CASE a.id = "quiz_first" -> stats.total_sessions >= 1
              [] a.id = "quiz_perfect" -> stats.best_quiz_score >= 100
              [] a.id = "quiz_10" -> stats.total_sessions >= a.requirement
              [] OTHER -> FALSE
      [] a.category = "time" -> stats.total_study_minutes >= a.requirement
      [] a.category = "special" -> stats.mastered_words >= a.requirement
      [] OTHER -> FALSE

\* the event check_achievements rewards an unlock with
UnlockEventM == "word_learned"

UnlockEvent == "word_mastered"

\* the loop of check_achievements from catalogue entry i on; db carries the
\* tables, the list newly_unlocked and the xp_gained of the nested award_xp
RECURSIVE CheckFrom(_, _, _, _, _)
CheckFrom(i, db, stats, progress, t) ==
    IF i > Len(ACHIEVEMENTS) THEN db
    ELSE LET a == ACHIEVEMENTS[i]
         IN  IF is_achievement_unlocked(db.achievements, a.id)
                \/ ~RequirementMet(a, stats, progress)
             THEN CheckFrom(i + 1, db, stats, progress, t)
             ELSE LET \* extra_multiplier left at its default 1.0
                      xp == award_xp(db.user_progress, UnlockEvent, MultiplierScale)
                  IN  CheckFrom(i + 1,
                          [achievements |-> unlock_achievement(db.achievements, a.id, t),
                           user_progress |-> xp.user_progress,
                           newly_unlocked |-> Append(db.newly_unlocked, a.id),
                           gained |-> db.gained + xp.ret.xp_gained],
                          stats, progress, t)

\* GamificationSystem.check_achievements()
check_achievements(ach, up, wm, ss, t) ==
    CheckFrom(1, [achievements |-> ach, user_progress |-> up,
                  newly_unlocked |-> <<>>, gained |-> 0],
              get_statistics(wm, ss, up), up, t)

\* ----------------------------------------------------------- SpecLevel
\* The services as init_resources builds them on a fresh database:
\* ProgressTracker() creates the tables, GamificationSystem(tracker) inserts
\* the user_progress row and one locked row per catalogue entry.
InitGame ==
    /\ card0 = NewCard(0)
    /\ card = card0
    /\ history = <<>>
    /\ word_mastery = [w \in Words |-> NoRow]
    /\ user_progress = DefaultProgress
    /\ sessions = <<>>
    /\ now = 0
    /\ lastCall = [op |-> "init"]
    /\ ret = [error |-> ""]
    /\ achievements = init_achievements([a \in AchievementIds |-> NoRow])
    /\ awarded = 0
    /\ streak_log = <<>>
    /\ checked = NoRow
    /\ procs = <<>>

MaxXpInput == 500      \* largest total_xp handed to calculate_level

\* one direct call calculate_level(total_xp)
CalculateLevel(total_xp) ==
    /\ lastCall' = [op |-> "calculate_level", total_xp |-> total_xp]
    /\ ret' = [error |-> "", level |-> calculate_level(total_xp)]
    /\ UNCHANGED <<gameVars, card0, card, history, word_mastery, user_progress,
                   sessions, now>>

NextLevel == \E total_xp \in -1 .. MaxXpInput : CalculateLevel(total_xp)

SpecLevel == InitGame /\ [][NextLevel]_vars

\* --------------------------------------------------- claims on SpecLevel
\* xp_for_current_level(level): the total XP at which `level` begins
RECURSIVE xp_for_current_level(_)
xp_for_current_level(level) ==
    IF level <= 1 THEN 0
    ELSE xp_for_current_level(level - 1) + (100 * 3 ^ (level - 2)) \div (2 ^ (level - 2))

\* C14: for every xp >= 0, calculate_level(xp) is the largest n whose
\* cumulative threshold, the sum over k in 1..n-1 of floor(100 * 1.5^(k-1)),
\* is <= xp; calculate_level(0) = 1, calculate_level(100) = 2, and
\* calculate_level is non-decreasing in xp.
C14_LevelIsLargestReached ==
    (lastCall.op = "calculate_level" /\ lastCall.total_xp >= 0) =>
        LET xp == lastCall.total_xp
            n == ret.level
        IN  /\ n >= 1
            /\ xp_for_current_level(n) <= xp
            /\ xp_for_current_level(n + 1) > xp
            /\ xp = 0 => n = 1
            /\ xp = 100 => n = 2
            /\ xp > 0 => calculate_level(xp - 1) <= n

C14_Witness ==
    /\ lastCall.op = "calculate_level"
    /\ lastCall.total_xp = 250
    /\ ret.level = 3

\* -------------------------------------------------------------- SpecXP
MaxXP == 260           \* cap of the persisted total_xp
Events == DOMAIN XP_REWARDS \cup {"bonus_unknown"}
\* extra_multiplier in halves: -0.5, 0, 0.5 and the default 1.0
Multipliers == {-1, 0, 1, 2}

\* GamificationSystem.award_xp(event, extra_multiplier)
AwardXP(event, extra_multiplier) ==
    /\ TotalXpOf(user_progress) + XpAmount(event, extra_multiplier) <= MaxXP
    /\ LET out == award_xp(user_progress, event, extra_multiplier)
       IN  /\ user_progress' = out.user_progress
           /\ ret' = out.ret
           /\ awarded' = awarded + out.ret.xp_gained
    /\ lastCall' = [op |-> "award_xp", event |-> event,
                    extra_multiplier |-> extra_multiplier]
    /\ UNCHANGED <<achievements, streak_log, checked, procs, card0, card, history,
                   word_mastery, sessions, now>>

NextXP == \E event \in Events, m \in Multipliers : AwardXP(event, m)

SpecXP == InitGame /\ [][NextXP]_vars

\* ------------------------------------------------------ claims on SpecXP
\* floor(base * multiplier) for a reward of the table
FloorGain(event, extra_multiplier) ==
    (XP_REWARDS[event] * extra_multiplier) \div MultiplierScale

\* C11: award_xp with an event name that is not in the reward table, or with
\* floor(base * multiplier) <= 0, reports gained 0 and leveled_up false and
\* leaves total_xp and every other field of the user progress unchanged.
C11_ZeroGainNoChange ==
    [][ (lastCall'.op = "award_xp"
           /\ (lastCall'.event \notin DOMAIN XP_REWARDS
                 \/ FloorGain(lastCall'.event, lastCall'.extra_multiplier) <= 0)) =>
          /\ ret'.xp_gained = 0
          /\ ret'.leveled_up = FALSE
          /\ user_progress' = user_progress ]_vars

C11_Witness ==
    /\ lastCall.op = "award_xp"
    /\ lastCall.event = "bonus_unknown"
    /\ ret.xp_gained = 0
    /\ user_progress.total_xp = 30

\* C12: every award_xp call, whatever the event and multiplier, returns a
\* total equal to the persisted lifetime total_xp after the call and a level
\* equal to calculate_level of that total; award_xp(quiz_perfect) on a fresh
\* profile returns gained 30, total 30, level 1, leveled_up false.
C12_ReturnsPersistedTotal ==
    lastCall.op = "award_xp" =>
        /\ ret.total_xp = user_progress.total_xp
        /\ ret.level = calculate_level(user_progress.total_xp)
        /\ (lastCall.event = "quiz_perfect" /\ lastCall.extra_multiplier = MultiplierScale
              /\ awarded = 30) =>
               ret = [xp_gained |-> 30, total_xp |-> 30, level |-> 1,
                      leveled_up |-> FALSE]

\* C13: after any sequence of award_xp calls the persisted total_xp is the
\* sum of the gained amounts of those calls, each gained amount is >= 0, and
\* the level the last call reports is calculate_level of that sum.
C13_TotalIsSumOfGains ==
    /\ user_progress.total_xp = awarded
    /\ lastCall.op = "award_xp" =>
          /\ ret.xp_gained >= 0
          /\ ret.level = calculate_level(awarded)

\* ---------------------------------------------------------- SpecStreak
MaxDay == 5            \* last calendar day the clock reaches in SpecStreak

\* midnight passes: date.today() moves on by a day
NextDay ==
    /\ now < MaxDay
    /\ now' = now + 1
    /\ lastCall' = [op |-> "next_day"]
    /\ ret' = [error |-> ""]
    /\ UNCHANGED <<gameVars, card0, card, history, word_mastery, user_progress, sessions>>

\* GamificationSystem.update_streak(), called on every render of the home page
UpdateStreak ==
    /\ LET out == update_streak(user_progress, now)
       IN  /\ user_progress' = out.user_progress
           /\ ret' = out.ret
           /\ streak_log' = IF ~out.ret.empty /\ ~out.ret.already_done
                            THEN Append(streak_log, <<now, out.ret.current_streak>>)
                            ELSE streak_log
    /\ lastCall' = [op |-> "update_streak"]
    /\ UNCHANGED <<achievements, awarded, checked, procs, card0, card, history,
                   word_mastery, sessions, now>>

NextStreak == NextDay \/ UpdateStreak

SpecStreak == InitGame /\ [][NextStreak]_vars

\* -------------------------------------------------- claims on SpecStreak
\* C15: an update_streak call made on the calendar day stored in
\* last_study_date reports already_done and leaves current_streak,
\* longest_streak and last_study_date as they were, at every repetition.
C15_SameDayNoOp ==
    [][ (lastCall'.op = "update_streak" /\ user_progress.last_study_date = now) =>
          /\ ret'.already_done
          /\ user_progress'.current_streak = user_progress.current_streak
          /\ user_progress'.longest_streak = user_progress.longest_streak
          /\ user_progress'.last_study_date = user_progress.last_study_date ]_vars

C15_Witness ==
    /\ lastCall.op = "update_streak"
    /\ ret.already_done
    /\ user_progress.current_streak = 2
    /\ user_progress.last_study_date = now

\* C16: an update_streak call on a day other than last_study_date sets
\* current_streak to the previous value + 1 when last_study_date is the day
\* before, and to 1 for any other gap or when no date is stored; the calls of
\* a fresh profile on days D, D+1, D+3 yield 1, 2, 1.
C16_StreakStep ==
    /\ [][ (lastCall'.op = "update_streak" /\ user_progress.last_study_date # now) =>
             /\ user_progress'.current_streak =
                    IF user_progress.last_study_date # NULL
                       /\ user_progress.last_study_date = now - 1
                    THEN user_progress.current_streak + 1
                    ELSE 1
             /\ ret'.current_streak = user_progress'.current_streak
             /\ ~ret'.already_done
             /\ user_progress'.last_study_date = now ]_vars
    /\ [](\A D \in 0 .. MaxDay :
             (/\ Len(streak_log) >= 3
              /\ streak_log[1][1] = D
              /\ streak_log[2][1] = D + 1
              /\ streak_log[3][1] = D + 3) =>
                 <<streak_log[1][2], streak_log[2][2], streak_log[3][2]>> = <<1, 2, 1>>)

C16_Witness ==
    /\ lastCall.op = "update_streak"
    /\ streak_log = << <<0, 1>>, <<1, 2>>, <<3, 1>> >>
    /\ user_progress.current_streak = 1
    /\ user_progress.longest_streak = 2

\* --------------------------------------------------------- SpecAchieve
\* GamificationSystem.check_achievements()
CheckAchievements ==
    /\ LET db == check_achievements(achievements, user_progress, word_mastery,
                                    sessions, now)
       IN  /\ achievements' = db.achievements
           /\ user_progress' = db.user_progress
           /\ ret' = [error |-> "", newly_unlocked |-> db.newly_unlocked]
           /\ awarded' = awarded + db.gained
           /\ checked' = [exists |-> TRUE,
                          stats |-> get_statistics(word_mastery, sessions,
                                                   db.user_progress)]
    /\ lastCall' = [op |-> "check_achievements",
                    unchanged |-> checked.exists
                                  /\ checked.stats = get_statistics(word_mastery, sessions,
                                                                    user_progress)]
    /\ UNCHANGED <<streak_log, procs, card0, card, history, word_mastery, sessions, now>>

\* GamificationSystem(tracker) once more on the same store
NewGamificationSystem ==
    /\ user_progress' = IF user_progress.exists THEN user_progress ELSE DefaultProgress
    /\ achievements' = init_achievements(achievements)
    /\ lastCall' = [op |-> "GamificationSystem"]
    /\ ret' = [error |-> ""]
    /\ UNCHANGED <<awarded, streak_log, checked, procs, card0, card, history,
                   word_mastery, sessions, now>>

\* the learner marks a word of the lesson as learned for the first time
LearnWord(word) ==
    /\ ~word_mastery[word].exists
    /\ LessonUpdate(word, TRUE)

\* show_quiz opens its session on the first render
StartQuiz ==
    /\ sessions = <<>>
    /\ StartSession(0, "quiz")

\* show_quiz closes the quiz session with the percentage scored
EndQuiz(quiz_score) ==
    /\ Len(sessions) = 1
    /\ sessions[1].end_time = NULL
    /\ EndSession(1, 5, quiz_score)

NextAchieve ==
    \/ Tick
    \/ UpdateStreak
    \/ LearnWord("ni_hao")
    \/ StartQuiz
    \/ \E qs \in {50, 100} : EndQuiz(qs)
    \/ CheckAchievements
    \/ NewGamificationSystem

SpecAchieve == InitGame /\ [][NextAchieve]_vars

\* ------------------------------------------------- claims on SpecAchieve
Unlocked(ach) == {a \in AchievementIds : ach[a].exists /\ ach[a].unlocked}
Range(s) == {s[i] : i \in 1 .. Len(s)}

\* C17: when the aggregate statistics are the same as the previous
\* check_achievements call left them, a check_achievements call returns an
\* empty list, unlocks nothing and awards no XP.
C17_SecondCheckEmpty ==
    [][ (lastCall'.op = "check_achievements" /\ lastCall'.unchanged) =>
          /\ ret'.newly_unlocked = <<>>
          /\ achievements' = achievements
          /\ user_progress' = user_progress
          /\ awarded' = awarded ]_vars

C17_Witness ==
    /\ lastCall.op = "check_achievements"
    /\ lastCall.unchanged
    /\ ret.newly_unlocked = <<>>
    /\ Cardinality(Unlocked(achievements)) >= 2
    /\ \E a \in Unlocked(achievements) : achievements[a].unlocked_at < now

C19_ReturnsNewUnlocks ==
    [][ lastCall'.op = "check_achievements" =>
          /\ Range(ret'.newly_unlocked) = Unlocked(achievements') \ Unlocked(achievements)
          /\ Len(ret'.newly_unlocked) = Cardinality(Range(ret'.newly_unlocked))
          /\ user_progress' =
                [user_progress EXCEPT
                    !.total_xp = @ + 50 * Len(ret'.newly_unlocked),
                    !.xp = @ + 50 * Len(ret'.newly_unlocked)] ]_vars

C19_Witness ==
    /\ lastCall.op = "check_achievements"
    /\ Range(ret.newly_unlocked) = {"quiz_perfect", "time_1h", "time_10h"}
    /\ user_progress.total_xp = 200

\* --------------------------------------------------------- SpecOverlap
\* Two script threads share the one ProgressTracker of init_resources and its
\* connection (check_same_thread=False, no lock); each runs process_review
\* for the same word.  A thread's store accesses are three statements: the
\* SELECT of get_word_data, and the SELECT and the UPDATE of
\* update_word_mastery; other threads run between them.
Threads == {1, 2}
OverlapWord == "ni_hao"
OverlapQualities == {1, 3, 5}

\* the store once the word has been learned in a lesson
LearnedStore ==
    update_word_mastery([w \in Words |-> NoRow], DefaultProgress, 0, OverlapWord,
                        TRUE, NoKeywords)

InitOverlap ==
    /\ card0 = NewCard(0)
    /\ card = card0
    /\ history = <<>>
    /\ word_mastery = LearnedStore.word_mastery
    /\ user_progress = LearnedStore.user_progress
    /\ sessions = <<>>
    /\ now = 0
    /\ lastCall = [op |-> "init"]
    /\ ret = [error |-> ""]
    /\ achievements = init_achievements([a \in AchievementIds |-> NoRow])
    /\ awarded = 0
    /\ streak_log = <<>>
    /\ checked = NoRow
    /\ procs = [p \in Threads |-> [pc |-> "idle"]]

\* process_review up to its call of update_word_mastery: get_word_data,
\* Card(...) and sm2_algorithm on the thread's own Card
LoadCard(p, quality) ==
    /\ procs[p].pc = "idle"
    /\ get_word_data(word_mastery, OverlapWord).exists
    /\ \E out \in sm2_algorithm(CardFromRow(get_word_data(word_mastery, OverlapWord), now),
                                quality, now) :
          /\ out.error = ""
          /\ procs' = [procs EXCEPT ![p] = [pc |-> "select", quality |-> quality,
                                            updated_card |-> out.card]]
    /\ lastCall' = [op |-> "get_word_data", thread |-> p]
    /\ ret' = [error |-> ""]
    /\ UNCHANGED <<achievements, awarded, streak_log, checked, card0, card, history,
                   word_mastery, user_progress, sessions, now>>

\* update_word_mastery: SELECT times_practiced, times_correct; tp, tc computed
SelectCounters(p) ==
    /\ procs[p].pc = "select"
    /\ procs' = [procs EXCEPT ![p] =
                    [@ EXCEPT !.pc = "update"] @@
                    [counters |-> StoredCounters(word_mastery[OverlapWord],
                                                 procs[p].quality >= 3)]]
    /\ lastCall' = [op |-> "select_counters", thread |-> p]
    /\ ret' = [error |-> ""]
    /\ UNCHANGED <<achievements, awarded, streak_log, checked, card0, card, history,
                   word_mastery, user_progress, sessions, now>>

\* update_word_mastery: the UPDATE of the row and the commit; process_review returns
UpdateRow(p) ==
    /\ procs[p].pc = "update"
    /\ LET c == procs[p].updated_card
       IN  word_mastery' =
             [word_mastery EXCEPT ![OverlapWord] =
                [@ EXCEPT !.times_practiced = procs[p].counters[1],
                          !.times_correct = procs[p].counters[2],
                          !.last_practiced = now,
                          !.mastery_level = c.mastery_level,
                          !.next_review = c.next_review,
                          !.easiness_factor = COALESCE(c.easiness_factor, @),
                          !.interval = COALESCE(c.interval, @),
                          !.repetitions = COALESCE(c.repetitions, @)]]
    /\ procs' = [procs EXCEPT ![p] = [@ EXCEPT !.pc = "done"]]
    /\ lastCall' = [op |-> "update_row", thread |-> p]
    /\ ret' = [error |-> ""]
    /\ UNCHANGED <<achievements, awarded, streak_log, checked, card0, card, history,
                   user_progress, sessions, now>>

NextOverlap ==
    \E p \in Threads :
        \/ \E quality \in OverlapQualities : LoadCard(p, quality)
        \/ SelectCounters(p)
        \/ UpdateRow(p)

SpecOverlap == InitOverlap /\ [][NextOverlap]_vars

\* -------------------------------------------------- claims on SpecOverlap
\* the rows that the two reviews leave when one runs after the other
RowsAfter(q1, q2) ==
    UNION { { second.word_mastery[OverlapWord]
              : second \in process_review(first.word_mastery, first.user_progress, 0,
                                          OverlapWord, q2) }
            : first \in process_review(LearnedStore.word_mastery,
                                       LearnedStore.user_progress, 0, OverlapWord, q1) }

Scheduling(row) ==
    <<row.easiness_factor, row.interval, row.repetitions, row.next_review,
      row.mastery_level>>

\* C20: when two process_review calls for the same word overlap, neither
\* update is lost: afterwards times_practiced has grown by 2, times_correct
\* by the number of the two reviews with quality >= 3, and the scheduling
\* fields are those of the two reviews applied one after the other in some
\* order.
C20_NoLostUpdate ==
    (\A p \in Threads : procs[p].pc = "done") =>
        LET row == word_mastery[OverlapWord]
            row0 == LearnedStore.word_mastery[OverlapWord]
            q1 == procs[1].quality
            q2 == procs[2].quality
            good == Cardinality({p \in Threads : procs[p].quality >= 3})
        IN  /\ row.times_practiced = row0.times_practiced + 2
            /\ row.times_correct = row0.times_correct + good
            /\ Scheduling(row) \in
                  { Scheduling(r) : r \in RowsAfter(q1, q2) \cup RowsAfter(q2, q1) }

\* ------------------------------------------ further claims on SpecStore
\* C21: in every reachable state of the store, after any sequence of
\* lesson-flow updates and reviews, every word row has
\* times_correct <= times_practiced.
C21_CorrectWithinPractised ==
    \A w \in Words : word_mastery[w].exists =>
        /\ 0 <= word_mastery[w].times_correct
        /\ word_mastery[w].times_correct <= word_mastery[w].times_practiced

C21_Witness ==
    \E w \in Words :
        /\ word_mastery[w].exists
        /\ word_mastery[w].times_practiced = 3
        /\ word_mastery[w].times_correct = 1
        /\ IsCall("process_review")
        /\ lastCall.word = w
        /\ ret.error = ""

\* ------------------------------------------------------------ SpecWord
\* One word followed from its creation through a longer run of lesson-flow
\* updates and reviews than SpecStore affords; the clock stands still.
MaxWordPractised == 7  \* cap of the word's times_practiced in SpecWord
WordQualities == 0 .. 5

\* the word has just been created by its first lesson-flow update
\* (correct or not): interval 0, repetitions 0
InitWord ==
    /\ card0 = NewCard(0)
    /\ card = card0
    /\ history = <<>>
    /\ \E is_correct \in BOOLEAN :
          LET db == update_word_mastery([w \in Words |-> NoRow], DefaultProgress, 0,
                                        OverlapWord, is_correct, NoKeywords)
          IN  /\ word_mastery = db.word_mastery
              /\ user_progress = db.user_progress
    /\ sessions = <<>>
    /\ now = 0
    /\ lastCall = [op |-> "init"]
    /\ ret = [error |-> ""]
    /\ achievements = init_achievements([a \in AchievementIds |-> NoRow])
    /\ awarded = 0
    /\ streak_log = <<>>
    /\ checked = NoRow
    /\ procs = <<>>

\* update_word_mastery(word, is_correct) from a lesson, on the word followed
WordLesson(is_correct) ==
    /\ word_mastery[OverlapWord].times_practiced < MaxWordPractised
    /\ LET db == update_word_mastery(word_mastery, user_progress, now, OverlapWord,
                                     is_correct, NoKeywords)
       IN  /\ word_mastery' = db.word_mastery
           /\ user_progress' = db.user_progress
    /\ lastCall' = [op |-> "update_word_mastery", word |-> OverlapWord,
                    is_correct |-> is_correct]
    /\ ret' = [error |-> ""]
    /\ UNCHANGED <<gameVars, card0, card, history, sessions, now>>

\* process_review(word, quality) on the word followed
WordReview(quality) ==
    /\ word_mastery[OverlapWord].times_practiced < MaxWordPractised
    /\ \E out \in process_review(word_mastery, user_progress, now, OverlapWord, quality) :
        /\ word_mastery' = out.word_mastery
        /\ user_progress' = out.user_progress
        /\ ret' = out.ret
    /\ lastCall' = [op |-> "process_review", word |-> OverlapWord, quality |-> quality]
    /\ UNCHANGED <<gameVars, card0, card, history, sessions, now>>

NextWord ==
    \/ \E is_correct \in BOOLEAN : WordLesson(is_correct)
    \/ \E quality \in WordQualities : WordReview(quality)

SpecWord == InitWord /\ [][NextWord]_vars

\* ---------------------------------------------------- claims on SpecWord
\* C22: in every state reachable from a newly created word (interval 0,
\* repetitions 0) by lesson-flow updates and reviews, interval >= 1 whenever
\* repetitions >= 1.
C22_IntervalSet ==
    word_mastery[OverlapWord].repetitions >= 1 =>
        word_mastery[OverlapWord].interval >= 1

C22_Witness ==
    /\ lastCall.op = "update_word_mastery"
    /\ word_mastery[OverlapWord].repetitions = 3
    /\ word_mastery[OverlapWord].interval >= 8

\* C25: in every card state reachable from a new card, a review with
\* quality >= 3 of a card with repetitions >= 2 yields an interval strictly
\* greater than the interval before it, so the intervals of consecutive
\* successes grow strictly from the second success on, also with the
\* easiness factor at its floor 1.3.
C25_IntervalsGrow ==
    [][ (/\ lastCall'.op = "process_review"
         /\ ret'.error = ""
         /\ lastCall'.quality >= 3
         /\ word_mastery[OverlapWord].repetitions >= 2) =>
            word_mastery'[OverlapWord].interval > word_mastery[OverlapWord].interval ]_vars

C25_Witness ==
    /\ lastCall.op = "process_review"
    /\ lastCall.quality = 3
    /\ ret.error = ""
    /\ word_mastery[OverlapWord].easiness_factor = MinEF
    /\ word_mastery[OverlapWord].repetitions = 4
    /\ word_mastery[OverlapWord].interval = 10

\* ------------------------------------------ further claims on SpecStreak
\* C23: in every reachable state of the user progress record
\* longest_streak >= current_streak, and no step lowers longest_streak.
C23_LongestStreak ==
    /\ [](user_progress.longest_streak >= user_progress.current_streak)
    /\ [][user_progress'.longest_streak >= user_progress.longest_streak]_vars

C23_Witness ==
    /\ lastCall.op = "update_streak"
    /\ ~ret.already_done
    /\ user_progress.current_streak = 1
    /\ user_progress.longest_streak = 3

\* ------------------------------------------------ quiz generator (ai/agents)
\* EvalAgent._calculate_difficulty(scores); avg = sum / len compared exactly
RECURSIVE SumScores(_, _)
SumScores(scores, n) == IF n = 0 THEN 0 ELSE SumScores(scores, n - 1) + scores[n]

calculate_difficulty(scores) ==
    IF scores = <<>> THEN "medium"
    ELSE LET total == SumScores(scores, Len(scores))
         IN  IF total >= 90 * Len(scores) THEN "hard"
             ELSE IF total >= 70 * Len(scores) THEN "medium"
             ELSE "easy"

QuestionTypes == {"translation", "fill_blank", "pinyin"}

AvailableM(words, count) ==
    IF Len(words) >= count THEN SubSeq(words, 1, count - 1) ELSE words

\* available = words[:count] if len(words) >= count else words   (count >= 0)
Available(words, count) ==
    IF Len(words) >= count THEN SubSeq(words, 1, count) ELSE words

\* the other words, of which at most three give the wrong options; with more
\* than three of them random.shuffle picks which
Distractors(words, word) ==
    LET others == {words[j] : j \in 1 .. Len(words)} \ {word}
    IN  IF Cardinality(others) <= 3 THEN {others}
        ELSE {D \in SUBSET others : Cardinality(D) = 3}

\* the question appended for available[i] when random.choice gives q_type:
\* the set of questions the shuffles can produce.  A word stands for its own
\* first definition and pinyin; options are kept as a set, their order is random.
Questions(i, word, q_type, words, difficulty) ==
    CASE q_type = "translation" ->
            { [id |-> i - 1, type |-> q_type, word |-> word, options |-> {word} \cup D,
               answer |-> "definition", points |-> IF difficulty = "hard" THEN 10 ELSE 5]
              : D \in Distractors(words, word) }
      [] q_type = "fill_blank" ->
            { [id |-> i - 1, type |-> q_type, word |-> word, options |-> {},
               answer |-> "simplified", points |-> 10] }
      [] q_type = "pinyin" ->
            { [id |-> i - 1, type |-> q_type, word |-> word, options |-> {word} \cup D,
               answer |-> "pinyin", points |-> 5]
              : D \in Distractors(words, word) }

\* the loop over `available`: every list of questions it can build
RECURSIVE QuestionLists(_, _, _, _)
QuestionLists(n, available, words, difficulty) ==
    IF n = 0 THEN {<<>>}
    ELSE { Append(qs, q) :
             qs \in QuestionLists(n - 1, available, words, difficulty),
             q \in UNION { Questions(n, available[n], ty, words, difficulty)
                           : ty \in QuestionTypes } }

\* questions[:count]   (count >= 0)
Take(questions, count) == SubSeq(questions, 1, Min(Len(questions), count))

\* EvalAgent._generate_questions(words, difficulty, count)
generate_questions(words, difficulty, count) ==
    LET available == Available(words, count)
    IN  { Take(qs, count) : qs \in QuestionLists(Len(available), available, words,
                                                 difficulty) }

\* EvalAgent.generate_adaptive_quiz(words, recent_scores, count)
generate_adaptive_quiz(words, recent_scores, count) ==
    generate_questions(words, calculate_difficulty(recent_scores), count)

\* ------------------------------------------------------------ SpecQuiz
MaxCount == 4          \* largest number of questions asked for
\* the vocabulary load_hsk_words falls back to
Vocabulary == <<"ni_hao", "xie_xie", "zai_jian">>
ScoreHistories == {<<>>, <<90>>, <<100, 79>>, <<70>>, <<69>>}

GenerateAdaptiveQuiz(words, recent_scores, count) ==
    /\ \E questions \in generate_adaptive_quiz(words, recent_scores, count) :
          ret' = [error |-> "", questions |-> questions]
    /\ lastCall' = [op |-> "generate_adaptive_quiz", words |-> words,
                    recent_scores |-> recent_scores, count |-> count]
    /\ UNCHANGED <<gameVars, card0, card, history, word_mastery, user_progress,
                   sessions, now>>

NextQuiz ==
    \E n \in 0 .. Len(Vocabulary), recent_scores \in ScoreHistories, count \in 0 .. MaxCount :
        GenerateAdaptiveQuiz(SubSeq(Vocabulary, 1, n), recent_scores, count)

SpecQuiz == InitGame /\ [][NextQuiz]_vars

WroteRow(w) ==
    /\ lastCall'.op \in {"update_word_mastery", "process_review"}
    /\ lastCall'.word = w
    /\ ret'.error = ""

C27_LapseDemotes ==
    /\ IsReview(0 .. 2) =>
          /\ card.mastery_level = "new"
          /\ card.times_practiced = lastCall.before.times_practiced + 1
          /\ card.times_correct = lastCall.before.times_correct
    /\ (card0 = NewCard(0) /\ history = <<5, 1>>) =>
          /\ card.repetitions = 0
          /\ card.interval = 1
          /\ card.times_practiced = 2
          /\ card.times_correct = 1
          /\ card.mastery_level = "new"

\* a mastered card (six successes in a row, interval past 21 days) is rated 1
C27_Witness ==
    /\ IsReview({1})
    /\ lastCall.before.mastery_level = "mastered"
    /\ lastCall.before.times_correct >= 1
    /\ card.mastery_level = "new"
    /\ card.repetitions = 0

\* C28: a review with quality < 3 retains the easiness factor: the easiness
\* factor after the review equals the one before it.
C28_LapseKeepsEF ==
    IsReview(0 .. 2) => card.easiness_factor = lastCall.before.easiness_factor

\* the easiness factors a card of SpecCard can hold before a review
PriorEFs == MinEF .. (DefaultEF + MaxReviews * EFDelta(5))

\* no prior easiness factor is lowered by a review with this quality
NeverLowers(quality) == \A ef \in PriorEFs : NewEasiness(ef, quality) >= ef

\* C29: among the ratings 0..5, quality 5 is the only one for which a review
\* never yields an easiness factor below the prior one (prior >= 1.3); each of
\* the ratings 0..4 lowers some prior easiness factor.
C29_OnlyFiveKeeps ==
    IsReview(0 .. 5) =>
        /\ NeverLowers(lastCall.quality) <=> lastCall.quality = 5
        /\ lastCall.quality = 5 => card.easiness_factor >= lastCall.before.easiness_factor

\* C29, amended: the ratings 4 and 5 never lower the easiness factor (4
\* leaves it as it is, 5 raises it by 0.1); each of the ratings 0..3 lowers
\* every prior easiness factor above 1.3.
C29_FourAndFiveKeep ==
    IsReview(0 .. 5) =>
        LET before == lastCall.before.easiness_factor
        IN  /\ NeverLowers(lastCall.quality) <=> lastCall.quality \in {4, 5}
            /\ lastCall.quality = 5 => card.easiness_factor = before + EFDelta(5)
            /\ lastCall.quality = 4 => card.easiness_factor = before
            /\ (lastCall.quality <= 3 /\ before > MinEF) =>
                   card.easiness_factor < before

\* a quality-4 review of a card at 2.5 leaves 2.5
C29_Witness ==
    /\ IsReview({4})
    /\ lastCall.before.easiness_factor = DefaultEF
    /\ card.easiness_factor = DefaultEF

\* ------------------------------------------------ more claims on SpecXP
\* C30: in every reachable state the level persisted in the user progress
\* record (the level column, which get_statistics reports) equals
\* calculate_level of the persisted total_xp.
C30_LevelColumnIsDerived ==
    /\ user_progress.level = calculate_level(user_progress.total_xp)
    /\ get_statistics(word_mastery, sessions, user_progress).level
          = calculate_level(get_statistics(word_mastery, sessions, user_progress).total_xp)

====
